---------------------------- MODULE Spec2Model ----------------------------
(***************************************************************************)
(* Oil spill impact estimator: OilDispersalModel (models/dispersal_model)  *)
(* and ImpactEstimator (models/impact_estimator) as one state machine.     *)
(*                                                                         *)
(* Python floats are modelled as decimal fixed-point numbers: an integer n *)
(* stands for n / Scale.  Products and quotients truncate toward zero.     *)
(* time_hours is held in whole hours, area_km2 in units of 1 / KmScale km2 *)
(* (whole square metres) and cleanup_difficulty in units of 1 / KmScale.   *)
(* A dollar amount is a record of whole dollars and thousandths.           *)
(***************************************************************************)
EXTENDS Integers, Sequences, FiniteSets, TLC

VARIABLES model, estimator, ret, first_area, first_time

vars == <<model, estimator, ret, first_area, first_time>>

-----------------------------------------------------------------------------
(* Fixed-point arithmetic                                                  *)

Scale == 10^3
KmScale == 10^6
MaxInt == 2^30 + (2^30 - 1)

None == <<>>
Some(v) == <<v>>
Val(o) == o[1]

Abs(x) == IF x < 0 THEN -x ELSE x
Sgn(x) == IF x < 0 THEN -1 ELSE 1
Min(a, b) == IF a <= b THEN a ELSE b
Max(a, b) == IF a >= b THEN a ELSE b

\* <<q + r \div c, r % c>>: the quotient q carries what the remainder r holds
Carry(q, r, c) == <<q + r \div c, r % c>>

\* twice the pair h, plus a
DoublePlus(h, a, c) == Carry(2 * h[1], 2 * h[2] + a, c)

\* <<q, r>> with a * b = q * c + r and 0 <= r < c, for 0 <= a < c, by doubling
RECURSIVE MulDivQR(_, _, _)
MulDivQR(a, b, c) ==
    IF b = 0 THEN <<0, 0>>
    ELSE DoublePlus(MulDivQR(a, b \div 2, c), IF b % 2 = 1 THEN a ELSE 0, c)

\* floor(a * b / c) for naturals, c > 0, without overflowing 32 bits
MulDivNat(a, b, c) ==
    IF a = 0 \/ b = 0 THEN 0
    ELSE IF a <= MaxInt \div b THEN (a * b) \div c
    ELSE IF c % b = 0 THEN a \div (c \div b)
    ELSE IF c = Scale /\ b <= MaxInt \div Scale
         THEN (a \div Scale) * b + ((a % Scale) * b) \div Scale
    ELSE IF b = Scale /\ c <= MaxInt \div Scale
         THEN (a \div c) * Scale + ((a % c) * Scale) \div c
    ELSE (a \div c) * b + MulDivQR(a % c, b, c)[1]

\* (a * b) % c for naturals a, b < c
MulModReduced(a, b, c) ==
    IF a = 0 \/ b = 0 THEN 0
    ELSE IF a <= MaxInt \div b THEN (a * b) % c
    ELSE IF c % b = 0 THEN (a % (c \div b)) * b
    ELSE MulDivQR(a, b, c)[2]

\* (a * b) % c for naturals, c > 0
MulMod(a, b, c) == MulModReduced(a % c, b % c, c)

\* a * b / c truncated toward zero
MulDiv(a, b, c) ==
    Sgn(a) * Sgn(b) * Sgn(c) * MulDivNat(Abs(a), Abs(b), Abs(c))

Mul(a, b) == IF Abs(a) >= Abs(b) THEN MulDiv(a, b, Scale) ELSE MulDiv(b, a, Scale)
Div(a, b) == MulDiv(a, Scale, b)

\* Newton's iteration downward from a start x >= sqrt(n)
RECURSIVE ISqrtIter(_, _)
ISqrtIter(n, x) ==
    LET y == (x + n \div x) \div 2
    IN  IF y >= x THEN x ELSE ISqrtIter(n, y)

\* integer square root of a natural below 2^31
ISqrt(n) ==
    IF n = 0 THEN 0
    ELSE ISqrtIter(n, IF n < 10^2 THEN 10
                      ELSE IF n < 10^4 THEN 10^2
                      ELSE IF n < 10^6 THEN 10^3
                      ELSE IF n < 10^8 THEN 10^4
                      ELSE 46341)

\* x ** 0.5 on fixed-point x >= 0
FSqrt(x) ==
    IF x <= MaxInt \div Scale THEN ISqrt(x * Scale)
    ELSE IF x <= MaxInt \div 10 THEN ISqrt(x * 10) * 10
    ELSE ISqrt(x \div 10) * 100

Pow05(x) == FSqrt(x)
Pow025(x) == FSqrt(FSqrt(x))
Pow0125(x) == FSqrt(FSqrt(FSqrt(x)))
Pow075(x) == LET r == FSqrt(x) IN Mul(r, FSqrt(r))

\* math.exp(-x) for the arguments 0.05 * time_hours the time grid produces
\* (multiples of 24 hours), to three decimals
ExpNeg(x) ==
    CASE x = 0 -> 1000
      [] x = 600 -> 549
      [] x = 1200 -> 301
      [] x = 1800 -> 165
      [] x = 2400 -> 91
      [] x = 3000 -> 50
      [] x = 3600 -> 27
      [] x = 4200 -> 15
      [] x = 4800 -> 8
      [] OTHER -> 0

\* floor(log10(n)) for a natural n >= 1
RECURSIVE FloorLog10(_)
FloorLog10(n) == IF n < 10 THEN 0 ELSE 1 + FloorLog10(n \div 10)

\* the dollar amount a * b / c of naturals, to the thousandth
Money(a, b, c) ==
    [usd |-> MulDivNat(a, b, c), mill |-> MulDivNat(MulMod(a, b, c), Scale, c)]

NoMoney == [usd |-> 0, mill |-> 0]

MoneyAdd(x, y) ==
    [usd |-> x.usd + y.usd + (x.mill + y.mill) \div Scale,
     mill |-> (x.mill + y.mill) % Scale]

\* floor(x / d) for a dollar amount x and a fixed-point d > 0
MoneyDiv(x, d) ==
    MulDivNat(x.usd, Scale, d) + (MulMod(x.usd, Scale, d) + x.mill) \div d

\* dict.get(key, default)
Get(d, k, default) == IF k \in DOMAIN d THEN d[k] ELSE default

-----------------------------------------------------------------------------
(* Inputs                                                                  *)

\* elapsed times: a grid of 24-hour steps, 0 .. 24 * MaxTimeIdx hours
MaxTimeIdx == 2
Hours == {24 * i : i \in 0..MaxTimeIdx}

\* the fixture of tests/test_impact.py
TestOil ==
    [name |-> "Test Oil", density |-> 850, viscosity |-> 10000,
     surface_tension |-> 25000, evaporation_rate |-> 300, solubility |-> 20,
     persistence_factor |-> 700, co2_emission_factor |-> 3000,
     cleanup_difficulty |-> 3 * KmScale, environmental_toxicity |-> "moderate"]

\* the heavy oil of tests/test_dispersal.py
HeavyOil ==
    [name |-> "Heavy Oil", density |-> 950, viscosity |-> 500000,
     surface_tension |-> 30000, evaporation_rate |-> 100, solubility |-> 10,
     persistence_factor |-> 900]

\* a volatile, soluble product: evaporation_rate 0.4, solubility 0.25
VolatileOil ==
    [name |-> "Volatile", density |-> 750, viscosity |-> 1000,
     surface_tension |-> 20000, evaporation_rate |-> 400, solubility |-> 250]

\* an oil as dense as the 1.03 seawater reference
SeawaterOil == [name |-> "Seawater density", density |-> 1030]

\* a record with no physical field: every property falls back to its default
UnknownOil == [name |-> "Unknown"]

\* the test oil's density and viscosity, every other property at its default
LightOil == [name |-> "Light", density |-> 850, viscosity |-> 10000]

\* an oil denser than seawater
SinkingOil == [name |-> "Sinking", density |-> 1300, viscosity |-> 55000]

Oils ==
    {TestOil, HeavyOil, VolatileOil, SeawaterOil, UnknownOil, LightOil, SinkingOil}

\* the test oil with a cleanup_difficulty of 0.000001
EasyOil ==
    [name |-> "Easy", density |-> 850, viscosity |-> 10000,
     surface_tension |-> 25000, evaporation_rate |-> 300, solubility |-> 20,
     cleanup_difficulty |-> 1, environmental_toxicity |-> "High"]

\* the test oil with a field that holds an invalid value
ZeroViscosityOil ==
    [name |-> "Zero viscosity", density |-> 850, viscosity |-> 0,
     surface_tension |-> 25000, evaporation_rate |-> 300, solubility |-> 20]

ZeroTensionOil ==
    [name |-> "Zero surface tension", density |-> 850, viscosity |-> 10000,
     surface_tension |-> 0, evaporation_rate |-> 300, solubility |-> 20]

InvalidOils == {ZeroViscosityOil, ZeroTensionOil}

\* the physical fields of an oil_properties record
PhysicalFields ==
    {"density", "viscosity", "surface_tension", "evaporation_rate", "solubility"}

\* volume in barrels
Volumes == {1000 * Scale}

\* spills of two and a half barrels and of half a barrel
FractionalVolumes == {2500, 500}

\* the location types either table knows, and one that neither knows
LocationTypes ==
    {"open_ocean", "coastal", "estuary", "reef", "wetland", "river", "port",
     "desert"}

\* the constructor's default conditions, and a warm storm
Calm == [wind_speed |-> 10000, water_temp |-> 15000, wave_height |-> 500]
Storm == [wind_speed |-> 20000, water_temp |-> 25000, wave_height |-> 2000]
Conditions == {Calm, Storm}

Sensitivities == {1000, 2000}

\* a location type both tables know and one neither knows
SomeLocationTypes == {"coastal", "desert"}

\* (lat, lon) arguments: the default (0.0, 0.0) and the tests' (45.0, -75.0)
Coords == {<<0, 0>>, <<45000, -75000>>}

\* the command lines of main: volumes in thousandths of a barrel,
\* coordinates in thousandths of a degree on both sides of each limit
ArgVolumes == {-1000 * Scale, 0, 500, 1000 * Scale}
ArgLats == {-90001, -90000, 45000, 90000, 90001}
ArgLons == {-180001, -180000, -75000, 180000, 180001}
ArgOilTypes == {"crude", "zero_viscosity", "olive"}

\* data/oil_types.json as load_oil_types returns it: the file is not part of
\* the source tree, so the table is an input of main; here the oil of the
\* tests' fixture and an oil whose simulation raises
LoadedOilTypes == ("crude" :> TestOil) @@ ("zero_viscosity" :> ZeroViscosityOil)

Args ==
    [volume : ArgVolumes, lat : ArgLats, lon : ArgLons, oil_type : ArgOilTypes,
     output_map : {"spill_map.html"}]

\* the sensitivities of the estimators compared with the one under test:
\* below, inside and above the range [0.8, 2.0] of the sensitivity factor
ComparedSensitivities == {500, 700, 1000, 2000, 3000}

\* 0.1 * np.random.rand(): the polygon's radial jitter
Jitters == {0, 50}

\* np.random.normal(1.0, 0.05): unbounded, so a negative draw too
Randomness == {-1000, 1100}

-----------------------------------------------------------------------------
(* OilDispersalModel                                                       *)

OilDispersalModel(volume, oil_properties, time_hours, cond) ==
    [volume_m3 |-> Mul(volume, 159),
     oil_properties |-> oil_properties,
     time_hours |-> time_hours,
     wind_speed |-> cond.wind_speed,
     water_temp |-> cond.water_temp,
     wave_height |-> cond.wave_height,
     density |-> Get(oil_properties, "density", 900),
     viscosity |-> Get(oil_properties, "viscosity", 50000),
     surface_tension |-> Get(oil_properties, "surface_tension", 25000),
     evaporation_rate |-> Get(oil_properties, "evaporation_rate", 300),
     _affected_area |-> None,
     _spill_polygon |-> None,
     _slick_thickness |-> None,
     _evaporated_fraction |-> None,
     _dissolved_fraction |-> None]

\* the model constructed with the arguments of self but another oil
WithOil(self, oil_properties) ==
    [self EXCEPT !.oil_properties = oil_properties,
                 !.density = Get(oil_properties, "density", 900),
                 !.viscosity = Get(oil_properties, "viscosity", 50000),
                 !.surface_tension = Get(oil_properties, "surface_tension", 25000),
                 !.evaporation_rate = Get(oil_properties, "evaporation_rate", 300),
                 !._affected_area = None,
                 !._spill_polygon = None,
                 !._slick_thickness = None,
                 !._evaporated_fraction = None,
                 !._dissolved_fraction = None]

\* _calculate_evaporation with the 0.9 ceiling for every oil, whatever its
\* evaporation_rate
_calculate_evaporation_any_rate(self) ==
    Min(Max(0, Mul(900, Scale - ExpNeg(50 * self.time_hours))), 900)

_calculate_evaporation(self) ==
    LET base_evap_rate == Get(self.oil_properties, "evaporation_rate", 300)
        temp_factor == Scale + Mul(self.water_temp - 15000, 30)
        wind_factor == Scale + Mul(self.wind_speed - 10000, 20)
        effective_rate == Mul(Mul(base_evap_rate, temp_factor), wind_factor)
        max_evaporation ==
            Min(900, Mul(Get(self.oil_properties, "evaporation_rate", 300), 2500))
        evaporation_constant == 50
        evaporated_fraction ==
            Mul(max_evaporation,
                Scale - ExpNeg(evaporation_constant * self.time_hours))
    IN  Min(Max(0, evaporated_fraction), max_evaporation)

\* _calculate_dissolution without the temperature and wave factors
_calculate_dissolution_still_water(self) ==
    Min(Max(0, Mul(Get(self.oil_properties, "solubility", 10),
                   Min(Scale, Div(self.time_hours * Scale, 48000)))),
        200)

\* _calculate_dissolution without the clamp of line 219
_calculate_dissolution_unclamped(self) ==
    Mul(Mul(Mul(Get(self.oil_properties, "solubility", 10),
                Scale + Mul(self.water_temp - 15000, 20)),
            Scale + Mul(self.wave_height - 500, 500)),
        Min(Scale, Div(self.time_hours * Scale, 48000)))

_calculate_dissolution(self) ==
    LET base_solubility == Get(self.oil_properties, "solubility", 10)
        temp_factor == Scale + Mul(self.water_temp - 15000, 20)
        wave_factor == Scale + Mul(self.wave_height - 500, 500)
        time_factor == Min(Scale, Div(self.time_hours * Scale, 48000))
        dissolved_fraction ==
            Mul(Mul(Mul(base_solubility, temp_factor), wave_factor), time_factor)
    IN  Min(Max(0, dissolved_fraction), 200)

\* a Python number: a float v / Scale, or a complex number of magnitude v / Scale
PyNum(cplx, v) == [cplx |-> cplx, v |-> v]

Result(self, err, val) == [self |-> self, err |-> err, val |-> val]

\* the record of lines 130-137, stored and returned
_store_affected_area(self, info) ==
    Result([self EXCEPT !._affected_area = Some(info)], "", info)

\* calculate_affected_area reporting one square kilometre and one millimetre
\* whatever the oil
_fay_spreading_unit_area(self, lat, lon) ==
    _store_affected_area(self,
        [area_km2 |-> PyNum(FALSE, KmScale),
         center |-> <<lat, lon>>,
         thickness |-> PyNum(FALSE, Scale),
         evaporated |-> _calculate_evaporation(self),
         dissolved |-> _calculate_dissolution(self),
         polygon |-> self._spill_polygon])

\* lines 83-139: the Fay spreading estimate, built into the record and stored
_fay_spreading(self, lat, lon) ==
    LET time_seconds == self.time_hours * 3600 * Scale
        evaporated_fraction == _calculate_evaporation(self)
        dissolved_fraction == _calculate_dissolution(self)
        remaining_volume ==
            Mul(self.volume_m3, Scale - evaporated_fraction - dissolved_fraction)
        k == 1450
        g == 9810
        relative_density_diff == Div(1030 - self.density, 1030)
        wind_factor == Scale + Mul(Div(self.wind_speed, 20000), 500)
        wave_factor == Scale + Mul(Div(self.wave_height, 1000), 300)
        \* a negative float raised to a fractional power is a complex number
        cplx == remaining_volume < 0
        numer ==
            Mul(Mul(Mul(k, Pow075(Abs(remaining_volume))), Pow025(time_seconds)),
                Pow0125(Mul(g, Abs(relative_density_diff))))
        denom ==
            Mul(Pow025(Mul(self.viscosity, 1)), Pow05(Mul(self.surface_tension, 1)))
        area_m2 == Mul(Mul(Div(numer, denom), wind_factor), wave_factor)
        area_km2 == MulDiv(area_m2, KmScale, 1000000 * Scale)
        avg_thickness_mm == MulDiv(Abs(remaining_volume), 1000 * Scale, area_m2)
    IN  IF denom = 0 \/ area_m2 = 0
        THEN Result(self, "ZeroDivisionError", None)
        ELSE _store_affected_area(self,
                 [area_km2 |-> PyNum(cplx, area_km2),
                  center |-> <<lat, lon>>,
                  thickness |-> PyNum(cplx, avg_thickness_mm),
                  evaporated |-> evaporated_fraction,
                  dissolved |-> dissolved_fraction,
                  polygon |-> self._spill_polygon])

\* calculate_affected_area from its cache check on (what simulate=False runs)
_affected_area_or_compute(self, lat, lon) ==
    IF self._affected_area # None
    THEN Result(self, "", Val(self._affected_area))
    ELSE _fay_spreading(self, lat, lon)

\* _spreading_polygon with the jittered outline's extent written back into
\* the stored record's area_km2
_spreading_polygon_area(self, r, lat, lon, rnd) ==
    IF r.err # "" THEN Result(r.self, r.err, None)
    ELSE IF r.val.area_km2.cplx THEN Result(r.self, "TypeError", None)
    ELSE IF r.val.area_km2.v < 0 THEN Result(r.self, "ValueError", None)
    ELSE Result([r.self EXCEPT !._affected_area =
                     Some([r.val EXCEPT !.area_km2 =
                               PyNum(FALSE, Mul(r.val.area_km2.v, Scale + rnd))]),
                                !._spill_polygon =
                     Some([center |-> <<lat, lon>>,
                           radius_km |-> ISqrt(MulDiv(r.val.area_km2.v, Scale, 3142)),
                           wind_deform |-> Min(600, Div(self.wind_speed, 60000)),
                           jitter |-> rnd])],
                "", None)

\* lines 239-282 of _simulate_spreading, r being the outcome of its
\* calculate_affected_area(lat, lon, simulate=False) call: the 36-vertex
\* boundary is held as its centre, base radius, wind deformation and jitter
_spreading_polygon(self, r, lat, lon, rnd) ==
    IF r.err # "" THEN Result(r.self, r.err, None)
    \* math.sqrt of a complex number, or of a negative one
    ELSE IF r.val.area_km2.cplx THEN Result(r.self, "TypeError", None)
    ELSE IF r.val.area_km2.v < 0 THEN Result(r.self, "ValueError", None)
    ELSE Result([r.self EXCEPT !._spill_polygon =
                     Some([center |-> <<lat, lon>>,
                           radius_km |-> ISqrt(MulDiv(r.val.area_km2.v, Scale, 3142)),
                           wind_deform |-> Min(600, Div(self.wind_speed, 60000)),
                           jitter |-> rnd])],
                "", None)

_simulate_spreading(self, lat, lon, rnd) ==
    _spreading_polygon(self,
                       IF self._affected_area = None
                       THEN _affected_area_or_compute(self, lat, lon)
                       ELSE Result(self, "", Val(self._affected_area)),
                       lat, lon, rnd)

_run_simulation(self, lat, lon, rnd) ==
    _simulate_spreading(
        [self EXCEPT !._evaporated_fraction = Some(_calculate_evaporation(self)),
                     !._dissolved_fraction = Some(_calculate_dissolution(self))],
        lat, lon, rnd)

\* lines 80-139 after _run_simulation ended with outcome r
_after_simulation(r, lat, lon) ==
    IF r.err # "" THEN r ELSE _affected_area_or_compute(r.self, lat, lon)

calculate_affected_area(self, lat, lon, simulate, rnd) ==
    IF simulate
    THEN _after_simulation(_run_simulation(self, lat, lon, rnd), lat, lon)
    ELSE _affected_area_or_compute(self, lat, lon)

\* _fractions with the surface derived from the evaporated part alone
_fractions_less_evaporated(self) ==
    Result(self, "",
           [evaporated |-> Val(self._evaporated_fraction),
            dissolved |-> Val(self._dissolved_fraction),
            surface |-> Scale - Val(self._evaporated_fraction)])

\* lines 297-303 once both fractions are stored in self
_fractions(self) ==
    Result(self, "",
           [evaporated |-> Val(self._evaporated_fraction),
            dissolved |-> Val(self._dissolved_fraction),
            surface |-> Scale - Val(self._evaporated_fraction)
                              - Val(self._dissolved_fraction)])

\* lines 294-295
_ensure_dissolved(self) ==
    IF self._dissolved_fraction = None
    THEN [self EXCEPT !._dissolved_fraction = Some(_calculate_dissolution(self))]
    ELSE self

\* lines 291-292
_ensure_evaporated(self) ==
    IF self._evaporated_fraction = None
    THEN [self EXCEPT !._evaporated_fraction = Some(_calculate_evaporation(self))]
    ELSE self

get_volume_fractions(self) ==
    _fractions(_ensure_dissolved(_ensure_evaporated(self)))

\* line 315, r being the outcome of the calculate_affected_area call, if any
_thickness(r) ==
    IF r.err # "" THEN r
    ELSE Result(r.self, "", Val(r.self._affected_area).thickness)

get_slick_thickness(self, rnd) ==
    _thickness(IF self._affected_area = None
               THEN calculate_affected_area(self, 0, 0, TRUE, rnd)
               ELSE Result(self, "", None))

-----------------------------------------------------------------------------
(* ImpactEstimator                                                         *)

\* the constructor taking every location for one of sensitivity 1.0
ImpactEstimator_unit_sensitivity(dispersal_model, environmental_sensitivity) ==
    [environmental_sensitivity |-> Scale,
     oil_properties |-> dispersal_model.oil_properties,
     volume_m3 |-> dispersal_model.volume_m3,
     volume_barrels |-> Div(dispersal_model.volume_m3, 159),
     _surface_area |-> None,
     _co2_emissions |-> None,
     _cleanup_time |-> None]

ImpactEstimator(dispersal_model, environmental_sensitivity) ==
    [environmental_sensitivity |-> environmental_sensitivity,
     oil_properties |-> dispersal_model.oil_properties,
     volume_m3 |-> dispersal_model.volume_m3,
     volume_barrels |-> Div(dispersal_model.volume_m3, 159),
     _surface_area |-> None,
     _co2_emissions |-> None,
     _cleanup_time |-> None]

\* an estimator operation's outcome: the estimator, its dispersal model, the
\* exception raised ("" for none) and the value returned
EResult(self, dm, err, val) == [self |-> self, dm |-> dm, err |-> err, val |-> val]

\* lines 53-56, r being the outcome of the calculate_affected_area call
_store_surface_area(self, r) ==
    IF r.err # "" THEN EResult(self, r.self, r.err, None)
    ELSE EResult([self EXCEPT !._surface_area = Some(r.val.area_km2)],
                 r.self, "", r.val.area_km2)

calculate_surface_area(self, dm, rnd) ==
    IF self._surface_area # None
    THEN EResult(self, dm, "", Val(self._surface_area))
    ELSE _store_surface_area(self, calculate_affected_area(dm, 0, 0, TRUE, rnd))

\* lines 99-100
_store_co2_emissions(self, dm, total_emissions) ==
    EResult([self EXCEPT !._co2_emissions = Some(total_emissions)],
            dm, "", total_emissions)

\* _co2_of_fractions with the nominal 1000 barrels in place of volume_barrels
_co2_of_fractions_nominal_volume(self, r) ==
    LET evaporated == r.val.evaporated
        dissolved == r.val.dissolved
        surface == r.val.surface
        emission_factor == Get(self.oil_properties, "co2_emission_factor", 3000)
        nominal_barrels == 1000 * Scale
    IN  _store_co2_emissions(self, r.self,
            Mul(Mul(nominal_barrels, evaporated), emission_factor)
            + Mul(Mul(Mul(nominal_barrels, dissolved), emission_factor), 500)
            + Mul(Mul(Mul(nominal_barrels, surface), emission_factor), 800)
            + Mul(Mul(nominal_barrels, surface), 100))

\* lines 73-97, r being the outcome of get_volume_fractions
_co2_of_fractions(self, r) ==
    LET evaporated == r.val.evaporated
        dissolved == r.val.dissolved
        surface == r.val.surface
        emission_factor == Get(self.oil_properties, "co2_emission_factor", 3000)
        evaporated_emissions ==
            Mul(Mul(self.volume_barrels, evaporated), emission_factor)
        dissolved_emissions ==
            Mul(Mul(Mul(self.volume_barrels, dissolved), emission_factor), 500)
        surface_emissions ==
            Mul(Mul(Mul(self.volume_barrels, surface), emission_factor), 800)
        cleanup_emissions_factor == 100
        cleanup_emissions ==
            Mul(Mul(self.volume_barrels, surface), cleanup_emissions_factor)
    IN  _store_co2_emissions(self, r.self,
            evaporated_emissions + dissolved_emissions + surface_emissions
            + cleanup_emissions)

calculate_co2_emissions(self, dm) ==
    IF self._co2_emissions # None
    THEN EResult(self, dm, "", Val(self._co2_emissions))
    ELSE _co2_of_fractions(self, get_volume_fractions(dm))

\* lines 182-185
_store_cleanup_time(self, dm, jittered) ==
    EResult([self EXCEPT !._cleanup_time = Some(Max(1000, jittered))],
            dm, "", Max(1000, jittered))

\* lines 116-180, a being the outcome of calculate_surface_area and
\* randomness the np.random.normal(1.0, 0.05) draw
_cleanup_time_of_area(self, a, randomness) ==
    LET base_time_per_volume == 1500
        viscosity == Get(self.oil_properties, "viscosity", 50000)
        persistence == Get(self.oil_properties, "persistence_factor", 800)
        cleanup_difficulty ==
            Get(self.oil_properties, "cleanup_difficulty", 3 * KmScale)
        volume_factor == Div(self.volume_barrels, 1000 * Scale)
        basic_time == Mul(base_time_per_volume, volume_factor)
        viscosity_factor ==
            Min(3000, Max(500, Mul(Div(viscosity, 100000), 1500)))
        persistence_factor == Min(2000, Max(1000, Mul(persistence, 2000)))
        difficulty_factor == MulDiv(cleanup_difficulty, Scale, 3 * KmScale)
        wave_height == a.dm.wave_height
        wind_speed == a.dm.wind_speed
        water_temp == a.dm.water_temp
        wave_factor == Min(2000, Max(800, 800 + Mul(wave_height, 400)))
        wind_factor ==
            Min(1500, Max(800, 800 + Mul(Div(wind_speed, 20000), 500)))
        temp_factor ==
            Min(1500, Max(800, 1500 - Mul(Div(water_temp, 30000), 500)))
        area == MulDiv(a.val.v, Scale, KmScale)
        area_factor == Min(3000, Max(1000, 500 + Mul(Div(area, 100000), 500)))
        sensitivity_factor == Min(2000, Max(800, self.environmental_sensitivity))
        product ==
            Mul(Mul(Mul(Mul(Mul(Mul(Mul(Mul(basic_time, viscosity_factor),
                persistence_factor), difficulty_factor), wave_factor),
                wind_factor), temp_factor), area_factor), sensitivity_factor)
    IN  IF a.err # "" THEN a
        \* max(1.0, complex) cannot order its arguments
        ELSE IF a.val.cplx THEN EResult(a.self, a.dm, "TypeError", None)
        ELSE _store_cleanup_time(a.self, a.dm, Mul(product, randomness))

\* estimate_cleanup_time without the cache check of lines 109-110
estimate_cleanup_time_uncached(self, dm, rnd, randomness) ==
    _cleanup_time_of_area(self, calculate_surface_area(self, dm, rnd), randomness)

estimate_cleanup_time(self, dm, rnd, randomness) ==
    IF self._cleanup_time # None
    THEN EResult(self, dm, "", Val(self._cleanup_time))
    ELSE _cleanup_time_of_area(self, calculate_surface_area(self, dm, rnd),
                               randomness)

\* lines 206-218, a being the outcome of the calculate_affected_area() call
\* of line 203
_impact_summary(self, a, surface_area, co2_emissions, cleanup_time, fractions) ==
    IF a.err # "" THEN EResult(self, a.self, a.err, None)
    ELSE EResult(self, a.self, "",
                 [volume_barrels |-> self.volume_barrels,
                  volume_m3 |-> self.volume_m3,
                  surface_area_km2 |-> surface_area,
                  co2_emissions_tons |-> co2_emissions,
                  cleanup_time_days |-> cleanup_time,
                  oil_fractions |-> fractions,
                  slick_thickness_mm |-> a.val.thickness,
                  oil_type |-> Get(self.oil_properties, "name", "Unknown"),
                  environmental_sensitivity |-> self.environmental_sensitivity])

\* lines 200-203, f being the outcome of get_volume_fractions()
_summary_after_fractions(self, f, surface_area, co2_emissions, cleanup_time, rnd) ==
    _impact_summary(self, calculate_affected_area(f.self, 0, 0, TRUE, rnd),
                    surface_area, co2_emissions, cleanup_time, f.val)

\* line 197 on, r being the outcome of estimate_cleanup_time()
_summary_after_cleanup_time(r, surface_area, co2_emissions, rnd) ==
    IF r.err # "" THEN r
    ELSE _summary_after_fractions(r.self, get_volume_fractions(r.dm),
                                  surface_area, co2_emissions, r.val, rnd)

\* line 196 on, r being the outcome of calculate_co2_emissions()
_summary_after_co2_emissions(r, surface_area, rnd, randomness) ==
    IF r.err # "" THEN r
    ELSE _summary_after_cleanup_time(
             estimate_cleanup_time(r.self, r.dm, rnd, randomness),
             surface_area, r.val, rnd)

\* line 195 on, r being the outcome of calculate_surface_area()
_summary_after_surface_area(r, rnd, randomness) ==
    IF r.err # "" THEN r
    ELSE _summary_after_co2_emissions(calculate_co2_emissions(r.self, r.dm),
                                      r.val, rnd, randomness)

\* the polygon left behind is the one of the last simulation, so rnd stands
\* for its draws
get_impact_summary(self, dm, rnd, randomness) ==
    _summary_after_surface_area(calculate_surface_area(self, dm, rnd),
                                rnd, randomness)

\* str.lower() on the toxicity labels in use
lower(label) ==
    CASE label = "High" -> "high"
      [] label = "Moderate" -> "moderate"
      [] OTHER -> label

\* lines 231-238
base_impacts ==
    [open_ocean |-> [density |-> 200, vulnerability |-> 600],
     coastal |-> [density |-> 800, vulnerability |-> 800],
     estuary |-> [density |-> 1000, vulnerability |-> 1000],
     reef |-> [density |-> 1200, vulnerability |-> 900],
     wetland |-> [density |-> 1000, vulnerability |-> 1000],
     river |-> [density |-> 700, vulnerability |-> 800]]

\* lines 253-258
toxicity_map ==
    ("low" :> 300) @@ ("moderate" :> 600) @@ ("high" :> 800)
    @@ ("very high" :> 1000)

\* lines 252-267: the toxicity, and the density the rest of the method uses
_toxicity_and_density(self, density) ==
    IF "environmental_toxicity" \in DOMAIN self.oil_properties
    THEN [toxicity |->
              Get(toxicity_map, lower(self.oil_properties.environmental_toxicity),
                  600),
          density |-> density]
    ELSE LET viscosity == Get(self.oil_properties, "viscosity", 50000)
             oil_density == Get(self.oil_properties, "density", 900)
         IN  [toxicity |->
                  Min(1000, Max(300, Mul(oil_density - 800, 2000)
                                     + Mul(Div(viscosity, 1000 * Scale), 500))),
              density |-> oil_density]

\* lines 269-294, td being the toxicity and the density of lines 252-267
_wildlife_summary(self, surface_area, location_type, vulnerability, td) ==
    LET volume_factor ==
            Min(1000, Max(100,
                100 + Mul((FloorLog10(self.volume_barrels) - 5) * Scale, 300)))
        persistence == Get(self.oil_properties, "persistence_factor", 800)
        mortality_rate ==
            Mul(Mul(Mul(Mul(vulnerability, td.toxicity), volume_factor),
                    persistence), 800)
        area_density == Mul(surface_area.v, td.density)
        birds_affected == Mul(area_density * 100, vulnerability)
        marine_mammals_affected == Mul(area_density * 5, vulnerability)
        fish_affected == Mul(Mul(area_density * 1000, vulnerability), 500)
    IN  [location_type |-> location_type,
         wildlife_density |-> td.density,
         wildlife_vulnerability |-> vulnerability,
         oil_toxicity |-> td.toxicity,
         mortality_rate |-> mortality_rate,
         birds_affected |-> birds_affected \div KmScale,
         marine_mammals_affected |-> marine_mammals_affected \div KmScale,
         fish_affected |-> fish_affected \div KmScale,
         long_term_ecosystem_impact |->
             Mul(Mul(persistence, td.toxicity), self.environmental_sensitivity)]

\* lines 244-296, a being the outcome of calculate_surface_area and
\* location_type a key of base_impacts
_wildlife_impact_of_area(self, a, location_type) ==
    IF a.err # "" THEN a
    \* math.log10 of a volume that is not positive
    ELSE IF self.volume_barrels <= 0 THEN EResult(a.self, a.dm, "ValueError", None)
    \* int() of a complex number
    ELSE IF a.val.cplx THEN EResult(a.self, a.dm, "TypeError", None)
    ELSE EResult(a.self, a.dm, "",
             _wildlife_summary(self, a.val, location_type,
                 base_impacts[location_type].vulnerability,
                 _toxicity_and_density(self, base_impacts[location_type].density)))

\* lines 240-242
_known_location(location_type) ==
    IF location_type \notin DOMAIN base_impacts THEN "open_ocean" ELSE location_type

estimate_wildlife_impact(self, dm, location_type, rnd) ==
    _wildlife_impact_of_area(self, calculate_surface_area(self, dm, rnd),
                             _known_location(location_type))

\* lines 313-321, and the default of line 324 where it is read
location_multipliers ==
    [open_ocean |-> 1000, coastal |-> 2000, estuary |-> 2500, reef |-> 3000,
     wetland |-> 2500, river |-> 2000, port |-> 1800]

\* the shipping impact with 'port' left out of the test of line 354
_shipping_impact_river_only(location_type, cleanup_difficulty, location_mult) ==
    IF location_type \in {"river"}
    THEN Money(cleanup_difficulty, location_mult, 6 * Scale)
    ELSE NoMoney

\* lines 327, 354-356: 500000 * (cleanup_difficulty / 3.0) * location_mult
_shipping_impact(location_type, cleanup_difficulty, location_mult) ==
    IF location_type \in {"port", "river"}
    THEN Money(cleanup_difficulty, location_mult, 6 * Scale)
    ELSE NoMoney

\* lines 362-370
_economic_summary(self, cleanup_cost, environmental_damage, tourism_impact, fishery_impact, shipping_impact, total_economic_impact) ==
    [cleanup_cost_usd |-> cleanup_cost.usd,
     environmental_damage_usd |-> environmental_damage.usd,
     tourism_impact_usd |-> tourism_impact.usd,
     fishery_impact_usd |-> fishery_impact.usd,
     shipping_impact_usd |-> shipping_impact.usd,
     total_economic_impact_usd |-> total_economic_impact.usd,
     cost_per_barrel_usd |-> MoneyDiv(total_economic_impact, self.volume_barrels)]

\* line 359
_economic_total(self, cleanup_cost, environmental_damage, tourism_impact, fishery_impact, shipping_impact) ==
    _economic_summary(self, cleanup_cost, environmental_damage, tourism_impact,
        fishery_impact, shipping_impact,
        MoneyAdd(MoneyAdd(MoneyAdd(MoneyAdd(cleanup_cost, environmental_damage),
                                   tourism_impact), fishery_impact),
                 shipping_impact))

\* lines 326-356: self.volume_barrels * 10000 is a whole number of dollars
_economic_components(self, surface_area, location_type, location_mult, cleanup_difficulty) ==
    _economic_total(self,
        Money(Mul(self.volume_barrels * 10, location_mult), cleanup_difficulty,
              3 * KmScale),
        Money(surface_area.v * 500, self.environmental_sensitivity, KmScale),
        IF location_type \in {"coastal", "reef", "estuary"}
        THEN Money(surface_area.v * 100, location_mult, KmScale)
        ELSE NoMoney,
        IF location_type \in {"coastal", "estuary", "river", "reef"}
        THEN Money(surface_area.v * 50, Get(self.oil_properties, "toxicity", 600),
                   KmScale)
        ELSE NoMoney,
        _shipping_impact(location_type, cleanup_difficulty, location_mult))

\* lines 324-372, a being the outcome of calculate_surface_area
_economic_impact_of_area(self, a, location_type) ==
    IF a.err # "" THEN a
    \* int() of a complex number
    ELSE IF a.val.cplx THEN EResult(a.self, a.dm, "TypeError", None)
    ELSE IF self.volume_barrels = 0
         THEN EResult(a.self, a.dm, "ZeroDivisionError", None)
    ELSE EResult(a.self, a.dm, "",
             _economic_components(self, a.val, location_type,
                 Get(location_multipliers, location_type, 1000),
                 Get(self.oil_properties, "cleanup_difficulty", 3 * KmScale)))

estimate_economic_impact(self, dm, location_type, rnd) ==
    _economic_impact_of_area(self, calculate_surface_area(self, dm, rnd),
                             location_type)

\* the estimator of tests/test_impact.py 80-92: a fresh model with the inputs
\* of dm but ten times the volume, and a fresh estimator over it
large_dispersal_model(dm, volume) ==
    OilDispersalModel(10 * volume, dm.oil_properties, dm.time_hours,
                      [wind_speed |-> dm.wind_speed, water_temp |-> dm.water_temp,
                       wave_height |-> dm.wave_height])

large_co2_emissions(self, large) ==
    calculate_co2_emissions(ImpactEstimator(large, self.environmental_sensitivity),
                            large).val

-----------------------------------------------------------------------------
(* main.py                                                                 *)

\* utils/geo_utils.py: latitude and longitude in thousandths of a degree
validate_coordinates(latitude, longitude) ==
    IF latitude < -90 * Scale \/ latitude > 90 * Scale THEN FALSE
    ELSE IF longitude < -180 * Scale \/ longitude > 180 * Scale THEN FALSE
    ELSE TRUE

\* validate_inputs without the check of the volume
validate_inputs_any_volume(args, oil_types) ==
    (IF ~validate_coordinates(args.lat, args.lon)
     THEN <<"Invalid coordinates">> ELSE <<>>)
    \o (IF args.oil_type \notin DOMAIN oil_types
        THEN <<"Unknown oil type">> ELSE <<>>)

validate_inputs(args, oil_types) ==
    (IF args.volume <= 0 THEN <<"Volume must be a positive number">> ELSE <<>>)
    \o (IF ~validate_coordinates(args.lat, args.lon)
        THEN <<"Invalid coordinates">> ELSE <<>>)
    \o (IF args.oil_type \notin DOMAIN oil_types
        THEN <<"Unknown oil type">> ELSE <<>>)

\* what a run of main leaves behind: the objects it constructed (None for
\* an object never constructed), the map file it wrote and its exit code
MainResult(dispersal_model, impact_estimator, map_path, code) ==
    [dispersal_model |-> dispersal_model, impact_estimator |-> impact_estimator,
     map_path |-> map_path, code |-> code]

\* lines 159-161
_main_error(r) == MainResult(Some(r.dm), Some(r.self), None, 1)

\* lines 141-156, r being the outcome of estimate_cleanup_time
_main_create_map(args, r) ==
    IF r.err # "" THEN _main_error(r)
    ELSE MainResult(Some(r.dm), Some(r.self), Some(args.output_map), 0)

\* line 133, r being the outcome of calculate_co2_emissions
_main_cleanup_time(args, r, rnd, randomness) ==
    IF r.err # "" THEN _main_error(r)
    ELSE _main_create_map(args, estimate_cleanup_time(r.self, r.dm, rnd, randomness))

\* line 132, r being the outcome of calculate_surface_area
_main_co2_emissions(args, r, rnd, randomness) ==
    IF r.err # "" THEN _main_error(r)
    ELSE _main_cleanup_time(args, calculate_co2_emissions(r.self, r.dm),
                            rnd, randomness)

\* lines 128-131, r being the outcome of calculate_affected_area
_main_surface_area(args, impact_estimator, r, rnd, randomness) ==
    IF r.err # "" THEN MainResult(Some(r.self), Some(impact_estimator), None, 1)
    ELSE _main_co2_emissions(args, calculate_surface_area(impact_estimator, r.self, rnd),
                             rnd, randomness)

\* lines 123-161
_main_simulate(args, dispersal_model, rnd, randomness) ==
    _main_surface_area(args, ImpactEstimator(dispersal_model, Scale),
                       calculate_affected_area(dispersal_model, args.lat, args.lon,
                                               TRUE, rnd),
                       rnd, randomness)

\* lines 104-121; oil_types is None when load_oil_types found no file
main(args, oil_types, rnd, randomness) ==
    IF oil_types = None THEN MainResult(None, None, None, 1)
    ELSE IF validate_inputs(args, Val(oil_types)) # <<>>
    THEN MainResult(None, None, None, 1)
    ELSE _main_simulate(args,
                        OilDispersalModel(args.volume, Val(oil_types)[args.oil_type],
                                          24, Calm),
                        rnd, randomness)

-----------------------------------------------------------------------------
(* The state machine: one OilDispersalModel and the ImpactEstimator that   *)
(* wraps it.  ret is the outcome of the last operation: its name and       *)
(* arguments, the exception it raised ("" for none), the value it returned *)
(* and whether it answered from its cache.  first_area is the first record *)
(* a calculate_affected_area call returned, and first_time the time_hours  *)
(* the instance had at that call.                                          *)

Ret(op, args, err, val, memo) ==
    [op |-> op, args |-> args, err |-> err, val |-> val, memo |-> memo]

InitWith(volumes, oils, hours, conds, senss) ==
    /\ \E volume \in volumes, oil \in oils, t \in hours, cond \in conds :
           model = OilDispersalModel(volume, oil, t, cond)
    /\ \E sens \in senss : estimator = ImpactEstimator(model, sens)
    /\ ret = Ret("init", <<>>, "", None, FALSE)
    /\ first_area = None
    /\ first_time = 0

Remember(returned) ==
    IF first_area = None THEN returned ELSE first_area

RememberTime(returned) ==
    IF first_area = None /\ returned # None THEN model.time_hours ELSE first_time

\* a dispersal-model operation ended with outcome r; returned is the
\* calculate_affected_area record it obtained, if it obtained one
DispersalReturn(op, args, r, memo, returned) ==
    /\ model' = r.self
    /\ ret' = Ret(op, args, r.err, r.val, memo)
    /\ first_area' = Remember(returned)
    /\ first_time' = RememberTime(returned)
    /\ UNCHANGED estimator

\* an estimator operation ended with outcome r
EstimatorReturn(op, args, r, memo, returned) ==
    /\ model' = r.dm
    /\ estimator' = r.self
    /\ ret' = Ret(op, args, r.err, r.val, memo)
    /\ first_area' = Remember(returned)
    /\ first_time' = RememberTime(returned)

AreaReturn(args, r) ==
    DispersalReturn("calculate_affected_area", args, r,
                    model._affected_area # None,
                    IF r.err = "" THEN Some(r.val) ELSE None)

CalculateAffectedArea(lat, lon, simulate, rnd) ==
    AreaReturn(<<lat, lon, simulate>>,
               calculate_affected_area(model, lat, lon, simulate, rnd))

GetVolumeFractions ==
    DispersalReturn("get_volume_fractions", <<>>, get_volume_fractions(model),
                    model._evaporated_fraction # None
                        /\ model._dissolved_fraction # None,
                    None)

ThicknessReturn(r) ==
    DispersalReturn("get_slick_thickness", <<>>, r,
                    model._affected_area # None,
                    IF r.err = "" /\ model._affected_area = None
                    THEN r.self._affected_area ELSE None)

GetSlickThickness(rnd) ==
    ThicknessReturn(get_slick_thickness(model, rnd))

\* the reassignment of time_hours that create_animation_frames (the
\* progression of the spill over its time steps) and test_time_dependence
\* (24, then 48) perform on a live instance: elapsed time moves forward
SetTimeHours(t) ==
    /\ t > model.time_hours
    /\ model' = [model EXCEPT !.time_hours = t]
    /\ ret' = Ret("set_time_hours", <<t>>, "", None, FALSE)
    /\ UNCHANGED <<estimator, first_area, first_time>>

SurfaceAreaReturn(op, args, r, memo) ==
    EstimatorReturn(op, args, r, memo,
                    IF r.err = "" /\ estimator._surface_area = None
                    THEN r.dm._affected_area ELSE None)

CalculateSurfaceArea(rnd) ==
    SurfaceAreaReturn("calculate_surface_area", <<>>,
                      calculate_surface_area(estimator, model, rnd),
                      estimator._surface_area # None)

CalculateCo2Emissions ==
    EstimatorReturn("calculate_co2_emissions", <<>>,
                    calculate_co2_emissions(estimator, model),
                    estimator._co2_emissions # None, None)

EstimateCleanupTime(rnd, randomness) ==
    SurfaceAreaReturn("estimate_cleanup_time", <<randomness>>,
                      estimate_cleanup_time(estimator, model, rnd, randomness),
                      estimator._cleanup_time # None)

EstimateWildlifeImpact(location_type, rnd) ==
    SurfaceAreaReturn("estimate_wildlife_impact", <<location_type>>,
                      estimate_wildlife_impact(estimator, model, location_type, rnd),
                      FALSE)

EstimateEconomicImpact(location_type, rnd) ==
    SurfaceAreaReturn("estimate_economic_impact", <<location_type>>,
                      estimate_economic_impact(estimator, model, location_type, rnd),
                      FALSE)

\* Call sequences on one live instance, with time_hours reassigned between
\* calls
Init == InitWith(Volumes, {TestOil, VolatileOil, SeawaterOil}, Hours, {Calm}, {1000})

Next ==
    \/ \E c \in Coords, simulate \in BOOLEAN, rnd \in Jitters :
           CalculateAffectedArea(c[1], c[2], simulate, rnd)
    \/ GetVolumeFractions
    \/ \E rnd \in Jitters : GetSlickThickness(rnd)
    \/ \E t \in Hours : SetTimeHours(t)
    \/ \E rnd \in Jitters : CalculateSurfaceArea(rnd)
    \/ CalculateCo2Emissions
    \/ \E rnd \in Jitters, randomness \in Randomness :
           EstimateCleanupTime(rnd, randomness)
    \/ \E location_type \in SomeLocationTypes, rnd \in Jitters :
           EstimateWildlifeImpact(location_type, rnd)
    \/ \E location_type \in SomeLocationTypes, rnd \in Jitters :
           EstimateEconomicImpact(location_type, rnd)

Spec == Init /\ [][Next]_vars

\* The sweep over the inputs: a freshly constructed instance for every oil,
\* elapsed time, condition and sensitivity, queried at the tests' coordinates
InitFresh ==
    InitWith(Volumes, Oils \cup InvalidOils, Hours, Conditions, Sensitivities)

NextFresh ==
    \/ \E simulate \in BOOLEAN : CalculateAffectedArea(45000, -75000, simulate, 0)
    \/ GetVolumeFractions
    \/ GetSlickThickness(0)
    \/ CalculateSurfaceArea(0)
    \/ CalculateCo2Emissions
    \/ \E randomness \in Randomness : EstimateCleanupTime(0, randomness)

SpecFresh == InitFresh /\ [][NextFresh]_vars

\* The sweep over the impact estimates: whole and fractional volumes, every
\* oil and every location type
InitImpact ==
    InitWith(Volumes \cup FractionalVolumes, Oils \cup {EasyOil}, Hours,
             Conditions, Sensitivities)

NextImpact ==
    \/ CalculateSurfaceArea(0)
    \/ \E location_type \in LocationTypes : EstimateWildlifeImpact(location_type, 0)
    \/ \E location_type \in LocationTypes : EstimateEconomicImpact(location_type, 0)

SpecImpact == InitImpact /\ [][NextImpact]_vars

\* One run of main for every command line: parse_arguments has returned
\* args, nothing is constructed yet and no map is written
InitMain ==
    /\ model = None
    /\ estimator = None
    /\ \E args \in Args, oil_types \in {None, Some(LoadedOilTypes)} :
           ret = Ret("parse_arguments", <<args, oil_types>>, "", None, FALSE)
    /\ first_area = None
    /\ first_time = 0

MainReturn(r) ==
    /\ model' = r.dispersal_model
    /\ estimator' = r.impact_estimator
    /\ ret' = Ret("main", ret.args, "", [code |-> r.code, map_path |-> r.map_path],
                  FALSE)
    /\ UNCHANGED <<first_area, first_time>>

Main(rnd, randomness) ==
    /\ ret.op = "parse_arguments"
    /\ MainReturn(main(ret.args[1], ret.args[2], rnd, randomness))

NextMain == \E rnd \in Jitters, randomness \in Randomness : Main(rnd, randomness)

SpecMain == InitMain /\ [][NextMain]_vars

-----------------------------------------------------------------------------
(* Properties                                                              *)

\* C1: in every state reachable by public calls, the evaporated, dissolved
\* and surface values get_volume_fractions returns sum to 1.0
FractionsSumToOne ==
    LET f == get_volume_fractions(model).val
    IN  /\ f.evaporated + f.dissolved + f.surface = Scale
        /\ ret.op = "get_volume_fractions" =>
               ret.val.evaporated + ret.val.dissolved + ret.val.surface = Scale

\* get_volume_fractions returned with part of the oil evaporated and part
\* dissolved
FractionsReturned ==
    /\ ret.op = "get_volume_fractions"
    /\ ret.val.evaporated > 0
    /\ ret.val.dissolved > 0

\* C2: each of the three values get_volume_fractions returns lies in [0, 1],
\* for every valid input
FractionsInUnitInterval ==
    ret.op = "get_volume_fractions" =>
        \A f \in {"evaporated", "dissolved", "surface"} :
            0 <= ret.val[f] /\ ret.val[f] <= Scale

\* C3: 0 <= evaporated <= min(0.9, 2.5 * evaporation_rate) and
\* 0 <= dissolved <= 0.2, for the fractions the model computes, stores and
\* returns
FractionsWithinCaps ==
    LET rate == Get(model.oil_properties, "evaporation_rate", 300)
        e == _calculate_evaporation(model)
        d == _calculate_dissolution(model)
    IN  /\ 0 <= e /\ e <= 900 /\ 2 * e <= 5 * rate
        /\ 0 <= d /\ d <= 200
        /\ model._evaporated_fraction # None => Val(model._evaporated_fraction) = e
        /\ model._dissolved_fraction # None => Val(model._dissolved_fraction) = d
        /\ ret.op = "get_volume_fractions" =>
               ret.val.evaporated = e /\ ret.val.dissolved = d
        /\ ret.op = "calculate_affected_area" /\ ret.err = "" =>
               ret.val.evaporated = e /\ ret.val.dissolved = d

\* get_volume_fractions returned a dissolved fraction at its 0.2 cap and an
\* evaporated fraction close to its own
CapsReached ==
    /\ ret.op = "get_volume_fractions"
    /\ ret.val.dissolved = 200
    /\ ret.val.evaporated > 800

\* C4: the record calculate_affected_area returns has area_km2 > 0 and
\* thickness > 0, both real numbers
AreaAndThicknessPositive ==
    ret.op = "calculate_affected_area" /\ ret.err = "" =>
        /\ ~ret.val.area_km2.cplx /\ ret.val.area_km2.v > 0
        /\ ~ret.val.thickness.cplx /\ ret.val.thickness.v > 0

\* C5: calculate_affected_area never fails on the division by area_m2, time
\* zero and seawater density included
NoZeroDivision ==
    ret.op = "calculate_affected_area" => ret.err # "ZeroDivisionError"

\* C6: estimate_cleanup_time returns a value >= 1.0 for every valid input and
\* every jitter draw, and the cached _cleanup_time is never below 1.0
CleanupTimeAtLeastOne ==
    /\ ret.op = "estimate_cleanup_time" => ret.err = "" /\ ret.val >= Scale
    /\ estimator._cleanup_time # None => Val(estimator._cleanup_time) >= Scale

\* C7: once an estimator operation has a cached value, the cache keeps it and
\* every later call of that operation returns exactly it, whatever the draws
EstimatorMemoized ==
    [][/\ estimator._surface_area # None =>
              /\ estimator'._surface_area = estimator._surface_area
              /\ ret'.op = "calculate_surface_area" =>
                     ret'.err = "" /\ ret'.val = Val(estimator._surface_area)
       /\ estimator._co2_emissions # None =>
              /\ estimator'._co2_emissions = estimator._co2_emissions
              /\ ret'.op = "calculate_co2_emissions" =>
                     ret'.err = "" /\ ret'.val = Val(estimator._co2_emissions)
       /\ estimator._cleanup_time # None =>
              /\ estimator'._cleanup_time = estimator._cleanup_time
              /\ ret'.op = "estimate_cleanup_time" =>
                     ret'.err = "" /\ ret'.val = Val(estimator._cleanup_time)
      ]_vars

\* estimate_cleanup_time answered from its cache with a value above the floor
\* although the draw offered to it was negative
CleanupTimeReused ==
    /\ ret.op = "estimate_cleanup_time"
    /\ ret.memo
    /\ ret.args = <<-1000>>
    /\ ret.err = ""
    /\ ret.val > Scale

\* C8: once calculate_affected_area has returned a record, the cache holds
\* that record and every later call returns it; get_slick_thickness and
\* calculate_surface_area hand out its thickness and its area
AreaRecordStable ==
    first_area # None =>
        /\ model._affected_area = first_area
        /\ ret.op = "calculate_affected_area" =>
               ret.err = "" /\ ret.val = Val(first_area)
        /\ ret.op = "get_slick_thickness" =>
               ret.err = "" /\ ret.val = Val(first_area).thickness
        /\ ret.op = "calculate_surface_area" =>
               ret.err = "" /\ ret.val = Val(first_area).area_km2

\* C9: the record calculate_affected_area(lat, lon) returns has center equal
\* to the (lat, lon) of that call
CenterIsArgument ==
    ret.op = "calculate_affected_area" /\ ret.err = "" =>
        ret.val.center = <<ret.args[1], ret.args[2]>>

\* C10: with simulate=True the record calculate_affected_area returns carries
\* the simulated polygon, never None
PolygonPresent ==
    ret.op = "calculate_affected_area" /\ ret.err = "" /\ ret.args[3] =>
        ret.val.polygon # None

\* C11: on one instance, a calculate_affected_area call made after time_hours
\* was raised returns a strictly greater area_km2, a strictly greater
\* evaporated fraction and a strictly smaller thickness than the first call
LaterCallReflectsTime ==
    /\ ret.op = "calculate_affected_area"
    /\ ret.err = ""
    /\ first_area # None
    /\ model.time_hours > first_time
    => /\ ret.val.area_km2.v > Val(first_area).area_km2.v
       /\ ret.val.evaporated > Val(first_area).evaporated
       /\ ret.val.thickness.v < Val(first_area).thickness.v

\* C12: of two fresh models that differ only in time_hours, the one with the
\* larger time has the strictly larger area_km2, the strictly larger
\* evaporated fraction and the strictly smaller thickness
LaterModelSpreadsFurther ==
    ret.op = "calculate_affected_area" /\ ret.err = "" /\ ~ret.val.area_km2.cplx =>
        \A t2 \in Hours :
            LET later == _fay_spreading([model EXCEPT !.time_hours = t2],
                                        ret.args[1], ret.args[2])
            IN  t2 > model.time_hours /\ later.err = "" /\ ~later.val.area_km2.cplx =>
                    /\ later.val.area_km2.v > ret.val.area_km2.v
                    /\ later.val.evaporated > ret.val.evaporated
                    /\ later.val.thickness.v < ret.val.thickness.v

\* C13 as stated: for equal volume, time and conditions, an oil with lower
\* density and lower viscosity has the strictly higher evaporated fraction
LighterOilEvaporatesMore ==
    ret.op = "get_volume_fractions" /\ model.time_hours > 0 =>
        \A other \in Oils :
            /\ model.density < Get(other, "density", 900)
            /\ model.viscosity < Get(other, "viscosity", 50000)
            => ret.val.evaporated > _calculate_evaporation(WithOil(model, other))

\* C13 amended: the evaporated fraction follows the oil's evaporation_rate
\* through the ceiling min(0.9, 2.5 * evaporation_rate) and nothing else of
\* the oil: at a positive time the higher ceiling gives the strictly higher
\* fraction, equal ceilings give equal fractions
EvaporationFollowsRate ==
    ret.op = "get_volume_fractions" /\ model.time_hours > 0 =>
        \A other \in Oils :
            LET mine == Min(900, Mul(Get(model.oil_properties, "evaporation_rate", 300), 2500))
                theirs == Min(900, Mul(Get(other, "evaporation_rate", 300), 2500))
                evaporated == _calculate_evaporation(WithOil(model, other))
            IN  /\ mine > theirs => ret.val.evaporated > evaporated
                /\ mine = theirs => ret.val.evaporated = evaporated
                /\ mine < theirs => ret.val.evaporated < evaporated

\* the fractions of the test oil were returned at a positive time: the heavy
\* oil has a lower evaporation_rate, the default oil the same one
TestOilFractionsReturned ==
    /\ ret.op = "get_volume_fractions"
    /\ model.time_hours > 0
    /\ model.oil_properties = TestOil
    /\ ret.val.evaporated > 0

\* C14 as stated: for equal volume, time and conditions, an oil with lower
\* density and lower viscosity has the strictly larger area_km2 and the
\* strictly smaller thickness, for every pair of densities
LighterOilSpreadsFurther ==
    /\ ret.op = "calculate_affected_area" /\ ret.err = "" /\ ~ret.val.area_km2.cplx
    /\ model.time_hours > 0
    => \A other \in Oils :
           LET theirs == _fay_spreading(WithOil(model, other), ret.args[1], ret.args[2])
           IN  /\ model.density < Get(other, "density", 900)
               /\ model.viscosity < Get(other, "viscosity", 50000)
               /\ theirs.err = ""
               /\ ~theirs.val.area_km2.cplx
               => /\ ret.val.area_km2.v > theirs.val.area_km2.v
                  /\ ret.val.thickness.v < theirs.val.thickness.v

\* C14 amended: the same, for two oils both lighter than the 1.03 seawater
\* reference that agree on surface tension, evaporation rate and solubility
LighterFloatingOilSpreadsFurther ==
    /\ ret.op = "calculate_affected_area" /\ ret.err = "" /\ ~ret.val.area_km2.cplx
    /\ model.time_hours > 0
    => \A other \in Oils :
           LET theirs == _fay_spreading(WithOil(model, other), ret.args[1], ret.args[2])
           IN  /\ model.density < Get(other, "density", 900)
               /\ Get(other, "density", 900) < 1030
               /\ model.viscosity < Get(other, "viscosity", 50000)
               /\ model.surface_tension = Get(other, "surface_tension", 25000)
               /\ Get(model.oil_properties, "evaporation_rate", 300)
                      = Get(other, "evaporation_rate", 300)
               /\ Get(model.oil_properties, "solubility", 10)
                      = Get(other, "solubility", 10)
               => /\ theirs.err = ""
                  /\ ~theirs.val.area_km2.cplx
                  /\ ret.val.area_km2.v > theirs.val.area_km2.v
                  /\ ret.val.thickness.v < theirs.val.thickness.v

\* the area of the light oil was returned: the default oil is denser and more
\* viscous and agrees with it on every other property
LightOilAreaReturned ==
    /\ ret.op = "calculate_affected_area"
    /\ ret.err = ""
    /\ model.time_hours > 0
    /\ model.oil_properties = LightOil

\* C15: all else fixed, _calculate_evaporation returns a strictly greater
\* fraction for a higher water_temp and for a higher wind_speed
WarmthAndWindRaiseEvaporation ==
    ret.op = "get_volume_fractions" /\ model.time_hours > 0 =>
        \A c \in Conditions :
            /\ c.water_temp > model.water_temp =>
                   _calculate_evaporation([model EXCEPT !.water_temp = c.water_temp])
                       > ret.val.evaporated
            /\ c.wind_speed > model.wind_speed =>
                   _calculate_evaporation([model EXCEPT !.wind_speed = c.wind_speed])
                       > ret.val.evaporated

\* C16 as stated: all else fixed, _calculate_dissolution returns a strictly
\* greater fraction for a higher water_temp and for a higher wave_height, for
\* every solubility and elapsed time
WarmthAndWavesRaiseDissolution ==
    ret.op = "get_volume_fractions" =>
        \A c \in Conditions :
            /\ c.water_temp > model.water_temp =>
                   _calculate_dissolution([model EXCEPT !.water_temp = c.water_temp])
                       > ret.val.dissolved
            /\ c.wave_height > model.wave_height =>
                   _calculate_dissolution([model EXCEPT !.wave_height = c.wave_height])
                       > ret.val.dissolved

\* C16 amended: the fraction at the higher water_temp or wave_height is never
\* smaller, and it is strictly greater whenever it is positive and below the
\* 0.2 cap
WarmthAndWavesRaiseDissolutionBelowCap ==
    ret.op = "get_volume_fractions" =>
        \A c \in Conditions :
            LET hot == _calculate_dissolution([model EXCEPT !.water_temp = c.water_temp])
                wavy == _calculate_dissolution([model EXCEPT !.wave_height = c.wave_height])
            IN  /\ c.water_temp > model.water_temp =>
                       /\ hot >= ret.val.dissolved
                       /\ 0 < hot /\ hot < 200 => hot > ret.val.dissolved
                /\ c.wave_height > model.wave_height =>
                       /\ wavy >= ret.val.dissolved
                       /\ 0 < wavy /\ wavy < 200 => wavy > ret.val.dissolved

\* the fractions of an instance in cool, flat water were returned with a
\* dissolved fraction that is positive and below the cap
CalmDissolutionReturned ==
    /\ ret.op = "get_volume_fractions"
    /\ model.water_temp = Calm.water_temp
    /\ model.wave_height = Calm.wave_height
    /\ ret.val.dissolved > 0
    /\ _calculate_dissolution([model EXCEPT !.water_temp = Storm.water_temp]) < 200

\* C17: the total_economic_impact_usd estimate_economic_impact reports is
\* exactly the sum of the five components it reports
TotalIsSumOfComponents ==
    ret.op = "estimate_economic_impact" /\ ret.err = "" =>
        ret.val.total_economic_impact_usd
            = ret.val.cleanup_cost_usd + ret.val.environmental_damage_usd
              + ret.val.tourism_impact_usd + ret.val.fishery_impact_usd
              + ret.val.shipping_impact_usd

\* C18: the cost_per_barrel_usd estimate_economic_impact reports is
\* floor(total_economic_impact_usd / volume_barrels) of the reported total,
\* for whole and for fractional volumes
CostPerBarrelOfReportedTotal ==
    ret.op = "estimate_economic_impact" /\ ret.err = "" =>
        ret.val.cost_per_barrel_usd
            = MulDivNat(ret.val.total_economic_impact_usd, Scale,
                        estimator.volume_barrels)

\* C19 as stated: for every oil with cleanup_difficulty > 0,
\* estimate_economic_impact reports shipping_impact_usd 0 for 'open_ocean'
\* and a strictly positive shipping_impact_usd for 'port'
ShippingZeroAtSeaPositiveInPort ==
    /\ ret.op = "estimate_economic_impact" /\ ret.err = ""
    /\ Get(estimator.oil_properties, "cleanup_difficulty", 3 * KmScale) > 0
    => /\ ret.args[1] = "open_ocean" => ret.val.shipping_impact_usd = 0
       /\ ret.args[1] = "port" => ret.val.shipping_impact_usd > 0

\* C19 amended: shipping_impact_usd is 0 for 'open_ocean'; for 'port' it is
\* strictly positive exactly when 300000 * cleanup_difficulty, the impact
\* before truncation, is at least one dollar
ShippingPositiveInPortFromOneDollar ==
    ret.op = "estimate_economic_impact" /\ ret.err = "" =>
        /\ ret.args[1] = "open_ocean" => ret.val.shipping_impact_usd = 0
        /\ ret.args[1] = "port" =>
               (ret.val.shipping_impact_usd > 0
                   <=> 3 * Get(estimator.oil_properties, "cleanup_difficulty",
                               3 * KmScale) >= 10)

\* the estimate for a port was returned for the test oil, whose shipping
\* impact is 500000 * 1.0 * 1.8
PortShippingReported ==
    /\ ret.op = "estimate_economic_impact" /\ ret.err = ""
    /\ ret.args[1] = "port"
    /\ estimator.oil_properties = TestOil
    /\ ret.val.shipping_impact_usd = 900000

\* C20: for a location_type outside the recognised set,
\* estimate_wildlife_impact and estimate_economic_impact do not fail and
\* return the record they return for 'open_ocean' on the same estimator, the
\* wildlife record reading location_type 'open_ocean'
UnknownLocationIsOpenOcean ==
    /\ ret.op = "estimate_wildlife_impact" /\ ret.args[1] \notin DOMAIN base_impacts
       => /\ ret.err = ""
          /\ ret.val = estimate_wildlife_impact(estimator, model, "open_ocean", 0).val
          /\ ret.val.location_type = "open_ocean"
    /\ ret.op = "estimate_economic_impact"
           /\ ret.args[1] \notin DOMAIN location_multipliers
       => /\ ret.err = ""
          /\ ret.val = estimate_economic_impact(estimator, model, "open_ocean", 0).val

\* C21: for every oil-properties record, with or without an
\* environmental_toxicity label, the wildlife_density estimate_wildlife_impact
\* reports is the density of the per-location table entry, so 'coastal' and
\* 'reef' report a strictly greater wildlife_density than 'open_ocean'
WildlifeDensityFromTable ==
    ret.op = "estimate_wildlife_impact" /\ ret.err = "" =>
        /\ ret.val.wildlife_density
               = base_impacts[_known_location(ret.args[1])].density
        /\ ret.args[1] \in {"coastal", "reef"} =>
               ret.val.wildlife_density
                   > estimate_wildlife_impact(estimator, model, "open_ocean", 0)
                         .val.wildlife_density

\* C22: on one estimator, estimate_wildlife_impact('reef') reports a strictly
\* greater long_term_ecosystem_impact than estimate_wildlife_impact('open_ocean')
ReefLongTermImpactGreater ==
    ret.op = "estimate_wildlife_impact" /\ ret.err = "" /\ ret.args[1] = "reef" =>
        ret.val.long_term_ecosystem_impact
            > estimate_wildlife_impact(estimator, model, "open_ocean", 0)
                  .val.long_term_ecosystem_impact

\* C23: the calculate_co2_emissions of a spill of ten times the volume,
\* every other input the same, is strictly between 8 and 12 times that of
\* the smaller spill
TenfoldSpillTenfoldEmissions ==
    ret.op = "calculate_co2_emissions" /\ ret.err = "" =>
        \A volume \in Volumes :
            Mul(volume, 159) = model.volume_m3 =>
                /\ 8 * ret.val
                       < large_co2_emissions(estimator,
                                             large_dispersal_model(model, volume))
                /\ large_co2_emissions(estimator,
                                       large_dispersal_model(model, volume))
                       < 12 * ret.val

\* the emissions of the test oil's 1000 barrels after 24 hours were returned
TestOilEmissionsReturned ==
    /\ ret.op = "calculate_co2_emissions" /\ ret.err = ""
    /\ estimator.oil_properties = TestOil
    /\ model.time_hours = 24
    /\ estimator.volume_barrels = 1000 * Scale
    /\ ret.val > 0

\* C24: calculate_affected_area on a model whose oil_properties record lacks
\* a field or holds an invalid value (viscosity 0, surface_tension 0)
\* completes normally; elapsed time and density are kept away from the
\* values at which the call fails for every record
MissingOrInvalidFieldCompletes ==
    /\ ret.op = "calculate_affected_area"
    /\ model.time_hours > 0 /\ model.density # 1030
    /\ \/ PhysicalFields \ DOMAIN model.oil_properties # {}
       \/ model.oil_properties \in InvalidOils
    => ret.err = ""

\* C25: main rejects invalid input before any computation: when the volume
\* is not positive, the latitude is outside [-90, 90], the longitude is
\* outside [-180, 180] or the oil type is not a key of the loaded oil types,
\* main returns 1, constructs neither an OilDispersalModel nor an
\* ImpactEstimator and writes no map; a model is constructed only from
\* inputs that pass all three checks.
InvalidArgs(args, oil_types) ==
    \/ args.volume <= 0
    \/ args.lat < -90 * Scale \/ args.lat > 90 * Scale
    \/ args.lon < -180 * Scale \/ args.lon > 180 * Scale
    \/ oil_types # None /\ args.oil_type \notin DOMAIN Val(oil_types)

InvalidInputRejected ==
    ret.op = "main" =>
        /\ InvalidArgs(ret.args[1], ret.args[2]) =>
               /\ ret.val.code = 1
               /\ model = None /\ estimator = None
               /\ ret.val.map_path = None
        /\ model # None \/ estimator # None =>
               ~InvalidArgs(ret.args[1], ret.args[2])

\* main has returned 1 on a volume of zero, with nothing constructed
ZeroVolumeRejected ==
    /\ ret.op = "main"
    /\ ret.args[1].volume = 0
    /\ validate_coordinates(ret.args[1].lat, ret.args[1].lon)
    /\ ret.args[2] # None /\ ret.args[1].oil_type = "crude"
    /\ ret.val.code = 1
    /\ model = None

\* C26: two OilDispersalModel instances constructed from identical inputs
\* and queried with the same calls return identical area_km2, thickness,
\* evaporated and dissolved values from calculate_affected_area (or raise
\* the same exception); only the jittered polygon may differ between the
\* two runs.
\* the instance of the other run: the same fields, another jitter drawn
OtherRun(self, rnd) ==
    IF self._spill_polygon = None THEN self
    ELSE [self EXCEPT !._spill_polygon = Some([Val(@) EXCEPT !.jitter = rnd])]

\* what the claim compares in the outcome of a calculate_affected_area call
Scalars(r) ==
    IF r.err # "" THEN <<r.err>>
    ELSE <<r.val.area_km2, r.val.thickness, r.val.evaporated, r.val.dissolved>>

SameInputsSameScalars ==
    \A c \in Coords, simulate \in BOOLEAN, drawn \in Jitters, rnd \in Jitters :
        Scalars(calculate_affected_area(OtherRun(model, drawn), c[1], c[2],
                                        simulate, rnd))
            = Scalars(calculate_affected_area(model, c[1], c[2], simulate, 0))

\* a simulating call has returned a record and drawn a non-zero jitter
JitteredAreaReturned ==
    /\ ret.op = "calculate_affected_area"
    /\ ret.err = ""
    /\ ret.args[3]
    /\ model._spill_polygon # None
    /\ Val(model._spill_polygon).jitter = 50

\* C27: of two ImpactEstimators over the same spill and conditions that
\* differ only in environmental_sensitivity, the one with the higher
\* environmental_sensitivity returns a strictly greater
\* estimate_cleanup_time(), for every volume and every pair of sensitivity
\* values.  As the test does, the second estimator is built over the
\* dispersal model of the first once the first has answered.
\* the estimate of an estimator of sensitivity s over the same model
sensitive_cleanup_time(s, randomness) ==
    estimate_cleanup_time(ImpactEstimator(model, s), model, 0, randomness).val

FirstEstimateReturned ==
    /\ ret.op = "estimate_cleanup_time"
    /\ ret.err = ""
    /\ ~ret.memo

MoreSensitiveTakesLonger ==
    FirstEstimateReturned =>
        \A s \in ComparedSensitivities, randomness \in Randomness :
            s > estimator.environmental_sensitivity =>
                sensitive_cleanup_time(s, randomness) > ret.val

\* C27, as the code has it: with the same random factor drawn, the more
\* sensitive estimator returns at least as much, and strictly more when the
\* two sensitivities differ after the clamp to [0.8, 2.0], the random factor
\* is positive and the lower estimate is above the floor of one day.
sensitivity_factor(s) == Min(2000, Max(800, s))

MoreSensitiveTakesNoLess ==
    FirstEstimateReturned =>
        \A s \in ComparedSensitivities :
            s > estimator.environmental_sensitivity =>
                /\ sensitive_cleanup_time(s, ret.args[1]) >= ret.val
                /\ /\ sensitivity_factor(s)
                          > sensitivity_factor(estimator.environmental_sensitivity)
                   /\ ret.args[1] > 0
                   /\ ret.val > Scale
                   => sensitive_cleanup_time(s, ret.args[1]) > ret.val

\* the fixture's estimator of sensitivity 1.0 has answered above the floor,
\* as the test's first estimator does
FixtureCleanupTimeReturned ==
    /\ FirstEstimateReturned
    /\ model.oil_properties = TestOil
    /\ model.time_hours = 24
    /\ estimator.environmental_sensitivity = Scale
    /\ ret.args[1] > 0
    /\ ret.val > Scale
    /\ sensitive_cleanup_time(2000, ret.args[1]) > ret.val
    /\ sensitive_cleanup_time(3000, ret.args[1])
           = sensitive_cleanup_time(2000, ret.args[1])

\* C28: every cached field of an instance is write-once: once
\* _affected_area, _spill_polygon, _evaporated_fraction or
\* _dissolved_fraction of the OilDispersalModel, or _surface_area,
\* _co2_emissions or _cleanup_time of the ImpactEstimator, holds a value, no
\* later public operation gives the field another value: none of the
\* queries taken as steps, and no get_impact_summary, which is a sequence of
\* them, called in any state they reach.
ModelCaches ==
    {"_affected_area", "_spill_polygon", "_evaporated_fraction", "_dissolved_fraction"}

EstimatorCaches == {"_surface_area", "_co2_emissions", "_cleanup_time"}

\* the caches that hold a value in self and dm are the same in r
CachesKept(self, dm, r) ==
    /\ \A f \in ModelCaches : dm[f] # None => r.dm[f] = dm[f]
    /\ \A f \in EstimatorCaches : self[f] # None => r.self[f] = self[f]

CachedFieldsWriteOnce ==
    /\ [][CachesKept(estimator, model, [self |-> estimator', dm |-> model'])]_vars
    /\ [](\A rnd \in Jitters, randomness \in Randomness :
              CachesKept(estimator, model,
                         get_impact_summary(estimator, model, rnd, randomness)))

\* C29: for the location types coastal, estuary, river and reef,
\* fishery_impact_usd is the truncation of area_km2 x 50000 x toxicity, the
\* toxicity being the one estimate_wildlife_impact reports as oil_toxicity
\* for the same estimator; for every other location type it is 0.
reported_oil_toxicity(location_type) ==
    estimate_wildlife_impact(estimator, model, location_type, 0).val.oil_toxicity

FisheryUsesReportedToxicity ==
    /\ ret.op = "estimate_economic_impact"
    /\ ret.err = ""
    => ret.val.fishery_impact_usd
           = IF ret.args[1] \in {"coastal", "estuary", "river", "reef"}
             THEN Money(Val(estimator._surface_area).v * 50,
                        reported_oil_toxicity(ret.args[1]), KmScale).usd
             ELSE 0

\* C30: after any sequence of public calls on an OilDispersalModel
\* interleaved with reassignments of its time_hours, the evaporated and
\* dissolved values of the record calculate_affected_area returns are the
\* ones get_volume_fractions() returns on the same instance, and the
\* record's area_km2 and thickness are those of the current time_hours.
\* the record computed from the instance's fields as they are now
current_area(lat, lon) == _fay_spreading(model, lat, lon)

RecordAgreesWithInstance ==
    /\ ret.op = "calculate_affected_area"
    /\ ret.err = ""
    => /\ ret.val.evaporated = get_volume_fractions(model).val.evaporated
       /\ ret.val.dissolved = get_volume_fractions(model).val.dissolved
       /\ current_area(ret.args[1], ret.args[2]).err = ""
       /\ ret.val.area_km2 = current_area(ret.args[1], ret.args[2]).val.area_km2
       /\ ret.val.thickness = current_area(ret.args[1], ret.args[2]).val.thickness

=============================================================================
